---- MODULE Spec2Model ----
(***************************************************************************)
(* A model of the Go board position of cc/position.{h,cc}: the stones, the *)
(* group pool, the two shared visitors, and the operations PlayMove,        *)
(* PassMove, AddStoneToBoard, RemoveGroup, MergeGroup, IsKoish,             *)
(* IsMoveLegal, IsMoveSuicidal, CalculateScore, together with the test      *)
(* constructor TestablePosition of cc/test_utils.cc.                        *)
(*                                                                         *)
(* Every public operation is one atomic action (the code is single-        *)
(* threaded and never yields).  The flood fills are computed exactly as    *)
(* the code computes them: through the BoardVisitor's LIFO stack and its   *)
(* 8-bit epoch tags.                                                       *)
(***************************************************************************)
EXTENDS Integers, Sequences, FiniteSets, TLC

\* ------------------------------------------------------------------ bounds

\* Board edge length.  The program's kN (cc/constants.h) is 9 or 19; the
\* model keeps the code and shrinks the board.
kN == 3
\* Number of PlayMove calls explored after construction.
MaxMoves == 3
\* Number of CalculateScore calls explored after construction.
MaxScores == 1
\* Number of Begin calls a caller's own traversals make (SpecVisitor), after
\* the prior ones.
MaxBegins == 2
\* Number of PlayMove calls explored in the long ko fight (SpecKoFight).
MaxKoFightMoves == 16

\* Number of play commands a text-protocol session sends (SpecGtp).
MaxCommands == 2

\* ------------------------------------------------------- colours and coords

Empty == 0
Black == 1
White == 2

BoardArea == kN * kN
Points == 0 .. (BoardArea - 1)
\* Coord::kPass and Coord::kInvalid: two values outside the board.
Pass == BoardArea
Invalid == BoardArea + 1

\* Group::kMaxNumGroups, the capacity of the pool.
kMaxNumGroups == BoardArea
GroupIds == 0 .. (kMaxNumGroups - 1)

\* Width of the visitors' epoch counter and tags (uint8_t).
EpochModulus == 256

OtherColor(color) == IF color = White THEN Black ELSE White

Coord(row, col) == row * kN + col
RowOf(c) == c \div kN
ColOf(c) == c % kN

\* kNeighborCoords: left, right, up, down, in that order, in-board only.
GetNeighborCoords(c) ==
  (IF ColOf(c) > 0 THEN << Coord(RowOf(c), ColOf(c) - 1) >> ELSE << >>) \o
  (IF ColOf(c) < kN - 1 THEN << Coord(RowOf(c), ColOf(c) + 1) >> ELSE << >>) \o
  (IF RowOf(c) > 0 THEN << Coord(RowOf(c) - 1, ColOf(c)) >> ELSE << >>) \o
  (IF RowOf(c) < kN - 1 THEN << Coord(RowOf(c) + 1, ColOf(c)) >> ELSE << >>)

Range(s) == { s[i] : i \in 1 .. Len(s) }
NeighborSet(c) == Range(GetNeighborCoords(c))

\* ------------------------------------------------------------ stone, group

EmptyStone == [color |-> Empty, group_id |-> 0]
Stone(color, id) == [color |-> color, group_id |-> id]
Group(size, libs) == [size |-> size, num_liberties |-> libs]

\* ---------------------------------------------------------------- GroupPool
\* A pool is [groups, num_groups, free_ids]: the records, the number of
\* slots handed out so far, and the LIFO list of freed ids.

EmptyPool ==
  [groups |-> [g \in GroupIds |-> Group(0, 0)], num_groups |-> 0, free_ids |-> << >>]

PoolExhausted(pool) == pool.free_ids = << >> /\ pool.num_groups >= kMaxNumGroups

\* The id alloc returns.
AllocId(pool) ==
  IF pool.free_ids # << >> THEN pool.free_ids[Len(pool.free_ids)] ELSE pool.num_groups

PoolAlloc(pool, size, libs) ==
  IF pool.free_ids # << >>
  THEN [pool EXCEPT !.groups[AllocId(pool)] = Group(size, libs),
                    !.free_ids = SubSeq(@, 1, Len(@) - 1)]
  ELSE [pool EXCEPT !.groups[AllocId(pool)] = Group(size, libs),
                    !.num_groups = @ + 1]

PoolFree(pool, id) == [pool EXCEPT !.free_ids = Append(@, id)]

\* The ids returned by alloc and not since passed to free.
Allocated(pool) == (0 .. (pool.num_groups - 1)) \ Range(pool.free_ids)

\* ------------------------------------------------------------- BoardVisitor
\* A visitor is [stack, visited, epoch], with a record of how it has been
\* used: pushed is the set of points pushed since the most recent Begin,
\* twice tells whether a point was ever pushed a second time in one
\* traversal, peak is the greatest stack height so far, and reentered tells
\* whether assert(Done()) in Begin has ever failed.

FreshBoardVisitor ==
  [stack |-> << >>, visited |-> [c \in Points |-> 0], epoch |-> 0,
   pushed |-> { }, twice |-> FALSE, peak |-> 0, reentered |-> FALSE]

BvDone(bv) == bv.stack = << >>

BvBegin(bv) ==
  [bv EXCEPT !.epoch = (bv.epoch + 1) % EpochModulus,
             !.visited = IF bv.epoch = 0 THEN [c \in Points |-> 0] ELSE @,
             !.pushed = { },
             !.reentered = @ \/ bv.stack # << >>]

BvVisitResult(bv, c) == bv.visited[c] # bv.epoch

BvVisit(bv, c) ==
  IF bv.visited[c] # bv.epoch
  THEN [bv EXCEPT !.visited[c] = bv.epoch, !.stack = Append(@, c),
                  !.pushed = @ \cup { c },
                  !.twice = @ \/ c \in bv.pushed,
                  !.peak = IF Len(bv.stack) + 1 > @ THEN Len(bv.stack) + 1 ELSE @]
  ELSE bv

BvNextCoord(bv) == bv.stack[Len(bv.stack)]
BvPop(bv) == [bv EXCEPT !.stack = SubSeq(@, 1, Len(@) - 1)]

\* ------------------------------------------------------------- GroupVisitor

FreshGroupVisitor == [visited |-> [g \in GroupIds |-> 0], epoch |-> 0]

GvBegin(gv) ==
  [gv EXCEPT !.epoch = (gv.epoch + 1) % EpochModulus,
             !.visited = IF gv.epoch = 0 THEN [g \in GroupIds |-> 0] ELSE @]

GvVisitResult(gv, id) == gv.visited[id] # gv.epoch

GvVisit(gv, id) ==
  IF gv.visited[id] # gv.epoch THEN [gv EXCEPT !.visited[id] = gv.epoch] ELSE gv

\* ------------------------------------------------------------------ Position
\* A position value is a record
\*   [stones, pool, to_play, previous_move, ko, num_captures, n,
\*    num_consecutive_passes, komi, bv, gv, failure]
\* where komi is counted in half points (the program's float komi_ times
\* two), bv and gv are the visitors the Position points to and failure
\* records a failed assertion ("none" while the process is alive).

NewPosition(bv, gv, komi, to_play, n) ==
  [stones |-> [c \in Points |-> EmptyStone],
   pool |-> EmptyPool,
   to_play |-> to_play,
   previous_move |-> Invalid,
   ko |-> Invalid,
   num_captures |-> << 0, 0 >>,
   n |-> n,
   num_consecutive_passes |-> 0,
   komi |-> komi,
   bv |-> bv,
   gv |-> gv,
   failure |-> "none"]

\* tiny_set::insert: keeps insertion order, refuses duplicates.
TinyInsert(set, id) == IF id \in Range(set) THEN set ELSE Append(set, id)

HasNeighboringGroup(p, c, group_id) ==
  \E nc \in NeighborSet(c) :
    p.stones[nc].color # Empty /\ p.stones[nc].group_id = group_id

RECURSIVE KoishLoop(_, _, _, _)
KoishLoop(p, ncs, i, ko_color) ==
  IF i > Len(ncs) THEN ko_color
  ELSE LET s == p.stones[ncs[i]] IN
       IF s.color = Empty THEN Empty
       ELSE IF s.color # ko_color
            THEN IF ko_color = Empty
                 THEN KoishLoop(p, ncs, i + 1, s.color)
                 ELSE Empty
            ELSE KoishLoop(p, ncs, i + 1, ko_color)

\* IsKoish as it would be if only points with four in-board neighbours could
\* be koish.
IsKoishInteriorOnly(p, c) ==
  IF p.stones[c].color # Empty THEN Empty
  ELSE IF Len(GetNeighborCoords(c)) < 4 THEN Empty
  ELSE KoishLoop(p, GetNeighborCoords(c), 1, Empty)

IsKoish(p, c) ==
  IF p.stones[c].color # Empty THEN Empty
  ELSE KoishLoop(p, GetNeighborCoords(c), 1, Empty)

RECURSIVE SuicidalLoop(_, _, _, _)
SuicidalLoop(p, ncs, i, color) ==
  IF i > Len(ncs) THEN TRUE
  ELSE LET s == p.stones[ncs[i]] IN
       IF s.color = Empty THEN FALSE
       ELSE IF s.color = OtherColor(color)
            THEN IF p.pool.groups[s.group_id].num_liberties = 1
                 THEN FALSE
                 ELSE SuicidalLoop(p, ncs, i + 1, color)
            ELSE IF p.pool.groups[s.group_id].num_liberties > 1
                 THEN FALSE
                 ELSE SuicidalLoop(p, ncs, i + 1, color)

\* IsMoveSuicidal as it would be if a friendly neighbour with a single
\* liberty were taken to keep the new stone alive.
RECURSIVE SuicidalLoopAnyLiberty(_, _, _, _)
SuicidalLoopAnyLiberty(p, ncs, i, color) ==
  IF i > Len(ncs) THEN TRUE
  ELSE LET s == p.stones[ncs[i]] IN
       IF s.color = Empty THEN FALSE
       ELSE IF s.color = OtherColor(color)
            THEN IF p.pool.groups[s.group_id].num_liberties = 1
                 THEN FALSE
                 ELSE SuicidalLoopAnyLiberty(p, ncs, i + 1, color)
            ELSE IF p.pool.groups[s.group_id].num_liberties >= 1
                 THEN FALSE
                 ELSE SuicidalLoopAnyLiberty(p, ncs, i + 1, color)

IsMoveSuicidalAnyLiberty(p, c, color) ==
  SuicidalLoopAnyLiberty(p, GetNeighborCoords(c), 1, color)

IsMoveSuicidal(p, c, color) == SuicidalLoop(p, GetNeighborCoords(c), 1, color)

\* IsMoveLegal as it would be without the ko test.
IsMoveLegalIgnoringKo(p, c) ==
  IF c = Pass THEN TRUE
  ELSE IF p.stones[c].color # Empty THEN FALSE
  ELSE IF IsMoveSuicidal(p, c, p.to_play) THEN FALSE
  ELSE TRUE

IsMoveLegal(p, c) ==
  IF c = Pass THEN TRUE
  ELSE IF p.stones[c].color # Empty THEN FALSE
  ELSE IF c = p.ko THEN FALSE
  ELSE IF IsMoveSuicidal(p, c, p.to_play) THEN FALSE
  ELSE TRUE

\* ---- RemoveGroup

\* The inner loop of RemoveGroup over the neighbours of a removed stone;
\* other_groups is the local tiny_set.
RECURSIVE RemoveNeighbors(_, _, _, _, _, _)
RemoveNeighbors(p, ncs, i, other_groups, removed_color, other_color) ==
  IF i > Len(ncs) THEN p
  ELSE LET ns == p.stones[ncs[i]] IN
       IF ns.color = other_color
       THEN IF ns.group_id \in Range(other_groups)
            THEN RemoveNeighbors(p, ncs, i + 1, other_groups, removed_color, other_color)
            ELSE RemoveNeighbors(
                   [p EXCEPT !.pool.groups[ns.group_id].num_liberties = @ + 1],
                   ncs, i + 1, Append(other_groups, ns.group_id),
                   removed_color, other_color)
       ELSE IF ns.color = removed_color
            THEN RemoveNeighbors([p EXCEPT !.bv = BvVisit(@, ncs[i])],
                                 ncs, i + 1, other_groups, removed_color, other_color)
            ELSE RemoveNeighbors(p, ncs, i + 1, other_groups, removed_color, other_color)

RECURSIVE RemoveLoop(_, _, _, _)
RemoveLoop(p, removed_color, other_color, removed_group_id) ==
  IF BvDone(p.bv) THEN p
  ELSE LET c == BvNextCoord(p.bv)
           p1 == [p EXCEPT !.bv = BvPop(@)]
       IN IF p1.stones[c].group_id # removed_group_id
          THEN [p1 EXCEPT !.failure = "assert"]
          ELSE RemoveLoop(
                 RemoveNeighbors([p1 EXCEPT !.stones[c] = EmptyStone],
                                 GetNeighborCoords(c), 1, << >>,
                                 removed_color, other_color),
                 removed_color, other_color, removed_group_id)

RemoveGroup(p, c) ==
  LET removed_color == p.stones[c].color
      other_color == OtherColor(removed_color)
      removed_group_id == p.stones[c].group_id
      p1 == [p EXCEPT !.gv = GvBegin(@), !.bv = BvVisit(BvBegin(@), c)]
  IN RemoveLoop(p1, removed_color, other_color, removed_group_id)

\* ---- MergeGroup

RECURSIVE MergeNeighbors(_, _, _, _)
MergeNeighbors(p, ncs, i, opponent_color) ==
  IF i > Len(ncs) THEN p
  ELSE IF p.stones[ncs[i]].color # opponent_color
       THEN MergeNeighbors([p EXCEPT !.bv = BvVisit(@, ncs[i])], ncs, i + 1, opponent_color)
       ELSE MergeNeighbors(p, ncs, i + 1, opponent_color)

RECURSIVE MergeLoop(_, _)
MergeLoop(p, s) ==
  IF BvDone(p.bv) THEN p
  ELSE LET c == BvNextCoord(p.bv)
           p1 == [p EXCEPT !.bv = BvPop(@)]
       IN IF p1.stones[c].color = Empty
          THEN MergeLoop([p1 EXCEPT !.pool.groups[s.group_id].num_liberties = @ + 1], s)
          ELSE IF p1.stones[c].color # s.color
               THEN [p1 EXCEPT !.failure = "assert"]
               ELSE MergeLoop(
                      MergeNeighbors(
                        [p1 EXCEPT !.pool.groups[s.group_id].size = @ + 1,
                                   !.stones[c] = s],
                        GetNeighborCoords(c), 1, OtherColor(s.color)),
                      s)

MergeGroup(p, c) ==
  LET s == p.stones[c]
      p1 == [p EXCEPT !.pool.groups[s.group_id] = Group(0, 0),
                      !.bv = BvVisit(BvBegin(@), c)]
  IN MergeLoop(p1, s)

\* ---- AddStoneToBoard

\* The first loop of AddStoneToBoard over the neighbours of c.  acc holds the
\* four local collections and the pool, whose opponent liberty counts the
\* loop decrements.
ScanStart(p) ==
  [pool |-> p.pool, captured_groups |-> << >>, liberties |-> << >>,
   opponent_groups |-> << >>, neighbor_groups |-> << >>]

RECURSIVE ScanNeighbors(_, _, _, _, _)
ScanNeighbors(p, color, ncs, i, acc) ==
  IF i > Len(ncs) THEN acc
  ELSE LET nc == ncs[i]
           neighbor == p.stones[nc]
           id == neighbor.group_id
       IN IF neighbor.color = Empty
          THEN ScanNeighbors(p, color, ncs, i + 1,
                 [acc EXCEPT !.liberties = Append(@, nc)])
          ELSE IF neighbor.color = color
          THEN ScanNeighbors(p, color, ncs, i + 1,
                 [acc EXCEPT !.neighbor_groups = TinyInsert(@, id)])
          ELSE IF neighbor.color = OtherColor(color) /\ id \notin Range(acc.opponent_groups)
          THEN ScanNeighbors(p, color, ncs, i + 1,
                 [acc EXCEPT !.opponent_groups = Append(@, id),
                             !.pool.groups[id].num_liberties = @ - 1,
                             !.captured_groups =
                                IF acc.pool.groups[id].num_liberties - 1 = 0
                                THEN Append(@, << id, nc >>) ELSE @])
          ELSE ScanNeighbors(p, color, ncs, i + 1, acc)

\* The single-neighbour path: the liberties of c the group did not have yet.
NewLiberties(p, liberties, group_id) ==
  Cardinality({ i \in 1 .. Len(liberties) : ~HasNeighboringGroup(p, liberties[i], group_id) })

RECURSIVE FreeMerged(_, _, _)
FreeMerged(pool, neighbor_groups, i) ==
  IF i > Len(neighbor_groups) THEN pool
  ELSE FreeMerged(PoolFree(pool, neighbor_groups[i]), neighbor_groups, i + 1)

\* "Place the new stone on the board": the three placement paths.
PlaceStone(p, c, color, acc) ==
  LET p0 == [p EXCEPT !.pool = acc.pool] IN
  IF acc.neighbor_groups = << >>
  THEN IF PoolExhausted(p0.pool)
       THEN [p0 EXCEPT !.failure = "pool_exhausted"]
       ELSE [p0 EXCEPT !.stones[c] = Stone(color, AllocId(p0.pool)),
                       !.pool = PoolAlloc(@, 1, Len(acc.liberties))]
  ELSE LET group_id == acc.neighbor_groups[1] IN
       IF Len(acc.neighbor_groups) = 1
       THEN [p0 EXCEPT !.pool.groups[group_id] =
                          Group(@.size + 1,
                                @.num_liberties - 1 + NewLiberties(p0, acc.liberties, group_id)),
                       !.stones[c] = Stone(color, group_id)]
       ELSE LET merged == MergeGroup([p0 EXCEPT !.stones[c] = Stone(color, group_id)], c)
            IN IF merged.failure # "none" THEN merged
               ELSE [merged EXCEPT !.pool = FreeMerged(@, acc.neighbor_groups, 2)]

\* "Remove captured groups".
RECURSIVE RemoveCaptured(_, _, _, _)
RemoveCaptured(p, color, captured_groups, i) ==
  IF i > Len(captured_groups) \/ p.failure # "none" THEN p
  ELSE LET num_captured_stones == p.pool.groups[captured_groups[i][1]].size
           idx == IF color = Black THEN 1 ELSE 2
       IN RemoveCaptured(
            RemoveGroup([p EXCEPT !.num_captures[idx] = @ + num_captured_stones],
                        captured_groups[i][2]),
            color, captured_groups, i + 1)

\* The ko update as it would be without the test of the captured group's size.
UpdateKoAnySize(p, captured_groups, potential_ko, opponent_color) ==
  IF /\ Len(captured_groups) = 1
     /\ potential_ko = opponent_color
  THEN captured_groups[1][2]
  ELSE Invalid

\* "Update ko".
UpdateKo(p, captured_groups, potential_ko, opponent_color) ==
  IF /\ Len(captured_groups) = 1
     /\ p.pool.groups[captured_groups[1][1]].size = 1
     /\ potential_ko = opponent_color
  THEN captured_groups[1][2]
  ELSE Invalid

AddStoneToBoard(p, c, color) ==
  LET potential_ko == IsKoish(p, c)
      opponent_color == OtherColor(color)
      acc == ScanNeighbors(p, color, GetNeighborCoords(c), 1, ScanStart(p))
      placed == PlaceStone(p, c, color, acc)
      removed == RemoveCaptured(placed, color, acc.captured_groups, 1)
  IN IF removed.failure # "none" THEN removed
     ELSE [removed EXCEPT !.ko = UpdateKo(removed, acc.captured_groups,
                                          potential_ko, opponent_color)]

\* ---- PassMove, PlayMove

\* PassMove as it would be if a pass left the ko point in place.
PassMoveKeepingKo(p) ==
  [p EXCEPT !.n = @ + 1,
            !.num_consecutive_passes = @ + 1,
            !.to_play = OtherColor(@),
            !.previous_move = Pass]

PassMove(p) ==
  [p EXCEPT !.n = @ + 1,
            !.num_consecutive_passes = @ + 1,
            !.ko = Invalid,
            !.to_play = OtherColor(@),
            !.previous_move = Pass]

is_game_over(p) == p.num_consecutive_passes >= 2

\* The colour PlayMove would play if it ignored its colour argument.
MoveColorToPlayOnly(p, color) == p.to_play

\* The colour PlayMove plays: the argument, or to_play when it is Empty.
MoveColor(p, color) == IF color = Empty THEN p.to_play ELSE color

\* PlayMove's precondition, assert(IsMoveLegal(c)), evaluated after to_play
\* has been overridden.
PlayMoveLegal(p, c, color) ==
  c = Pass \/ IsMoveLegal([p EXCEPT !.to_play = MoveColor(p, color)], c)

\* PlayMove as it would be if the colour argument were stored in to_play
\* before the test for a pass.
PlayMoveColorBeforePass(p, c, color) ==
  IF c = Pass THEN PassMove([p EXCEPT !.to_play = MoveColor(p, color)])
  ELSE LET col == MoveColor(p, color)
           added == AddStoneToBoard([p EXCEPT !.to_play = col], c, col)
       IN IF added.failure # "none" THEN added
          ELSE [added EXCEPT !.n = @ + 1,
                             !.num_consecutive_passes = 0,
                             !.to_play = OtherColor(@),
                             !.previous_move = c]

\* PlayMove as it would be if a stone left num_consecutive_passes alone.
PlayMoveKeepingPasses(p, c, color) ==
  IF c = Pass THEN PassMove(p)
  ELSE LET col == MoveColor(p, color)
           added == AddStoneToBoard([p EXCEPT !.to_play = col], c, col)
       IN IF added.failure # "none" THEN added
          ELSE [added EXCEPT !.n = @ + 1,
                             !.to_play = OtherColor(@),
                             !.previous_move = c]

PlayMove(p, c, color) ==
  IF c = Pass THEN PassMove(p)
  ELSE LET col == MoveColor(p, color)
           added == AddStoneToBoard([p EXCEPT !.to_play = col], c, col)
       IN IF added.failure # "none" THEN added
          ELSE [added EXCEPT !.n = @ + 1,
                             !.num_consecutive_passes = 0,
                             !.to_play = OtherColor(@),
                             !.previous_move = c]

\* ---- CalculateScore

\* found_bits |= static_cast<int>(color), on the values 0..3.
BitOr(bits, color) ==
  IF bits = color \/ bits = 3 THEN bits ELSE bits + color

\* The for loop of score_empty_area over the neighbours of c.
\* st is [bv, num_visited, found_bits].
RECURSIVE AreaNeighbors(_, _, _, _)
AreaNeighbors(p, st, ncs, i) ==
  IF i > Len(ncs) THEN st
  ELSE LET color == p.stones[ncs[i]].color IN
       IF color = Empty
       THEN AreaNeighbors(p, [st EXCEPT !.bv = BvVisit(@, ncs[i])], ncs, i + 1)
       ELSE AreaNeighbors(p, [st EXCEPT !.found_bits = BitOr(@, color)], ncs, i + 1)

\* The do-while loop of score_empty_area as it would be if it ran once.
AreaLoopOnce(p, st) ==
  LET c == BvNextCoord(st.bv)
  IN AreaNeighbors(p,
       [st EXCEPT !.bv = BvPop(@), !.num_visited = @ + 1],
       GetNeighborCoords(c), 1)

\* The do-while loop of score_empty_area.
RECURSIVE AreaLoop(_, _)
AreaLoop(p, st) ==
  LET c == BvNextCoord(st.bv)
      st1 == AreaNeighbors(p,
               [st EXCEPT !.bv = BvPop(@), !.num_visited = @ + 1],
               GetNeighborCoords(c), 1)
  IN IF BvDone(st1.bv) THEN st1 ELSE AreaLoop(p, st1)

\* The result of score_empty_area as it would be if a region bordered by
\* White alone counted for nobody.
AreaValueBlackOnly(st) ==
  IF st.found_bits = 1 THEN st.num_visited
  ELSE 0

AreaValue(st) ==
  IF st.found_bits = 1 THEN st.num_visited
  ELSE IF st.found_bits = 2 THEN -st.num_visited
  ELSE 0

\* The row-major loop of CalculateScore.  acc is [score, bv, gv].
RECURSIVE ScoreLoop(_, _, _)
ScoreLoop(p, c, acc) ==
  IF c >= BoardArea THEN acc
  ELSE LET s == p.stones[c] IN
       IF s.color = Empty
       THEN IF BvVisitResult(acc.bv, c)
            THEN LET st == AreaLoop(p, [bv |-> BvVisit(acc.bv, c),
                                        num_visited |-> 0, found_bits |-> 0])
                 IN ScoreLoop(p, c + 1,
                      [acc EXCEPT !.score = @ + AreaValue(st), !.bv = st.bv])
            ELSE ScoreLoop(p, c + 1, acc)
       ELSE IF GvVisitResult(acc.gv, s.group_id)
            THEN ScoreLoop(p, c + 1,
                   [acc EXCEPT !.gv = GvVisit(@, s.group_id),
                               !.score = IF s.color = Black
                                         THEN @ + p.pool.groups[s.group_id].size
                                         ELSE @ - p.pool.groups[s.group_id].size])
            ELSE ScoreLoop(p, c + 1, acc)

\* CalculateScore's effect on the visitors, its integer score, and the value
\* it returns, static_cast<float>(score) - komi_, in half points.
CalculateScore(p) ==
  LET acc == ScoreLoop(p, 0, [score |-> 0, bv |-> BvBegin(p.bv), gv |-> GvBegin(p.gv)])
  IN [score |-> acc.score, result |-> 2 * acc.score - p.komi, bv |-> acc.bv, gv |-> acc.gv]

\* ---- TestablePosition (cc/test_utils.cc)
\* A board string is modelled after it has been split at '\n' and stripped:
\* a sequence of lines, each a sequence of characters.

\* The lines of s that are not empty, in order.
RECURSIVE NonEmptyLines(_)
NonEmptyLines(s) ==
  IF s = << >> THEN << >>
  ELSE IF Head(s) = << >> THEN NonEmptyLines(Tail(s))
  ELSE << Head(s) >> \o NonEmptyLines(Tail(s))

\* SplitBoardString: skips the empty lines, pads every line to kN columns
\* with '.' and the board to kN lines.
SplitBoardString(str) ==
  LET lines == NonEmptyLines(str) IN
  [row \in 1 .. kN |->
     [col \in 1 .. kN |->
        IF row <= Len(lines) /\ col <= Len(lines[row]) THEN lines[row][col]
        ELSE "."]]

\* The constructor as it would be if it placed the stones with PlayMove.
RECURSIVE PlayAll(_, _, _)
PlayAll(p, colors, i) ==
  IF i >= BoardArea \/ p.failure # "none" THEN p
  ELSE IF colors[i] # Empty
       THEN PlayAll(PlayMove(p, i, colors[i]), colors, i + 1)
       ELSE PlayAll(p, colors, i + 1)

ParseBoard(str) ==
  LET lines == SplitBoardString(str) IN
  [c \in Points |->
     IF lines[RowOf(c) + 1][ColOf(c) + 1] = "X" THEN Black
     ELSE IF lines[RowOf(c) + 1][ColOf(c) + 1] = "O" THEN White
     ELSE Empty]

RECURSIVE PlaceAll(_, _, _)
PlaceAll(p, colors, i) ==
  IF i >= BoardArea \/ p.failure # "none" THEN p
  ELSE IF colors[i] # Empty
       THEN PlaceAll(AddStoneToBoard(p, i, colors[i]), colors, i + 1)
       ELSE PlaceAll(p, colors, i + 1)

TestablePositionByPlayMove(board_str, komi, to_play, n) ==
  PlayAll(NewPosition(FreshBoardVisitor, FreshGroupVisitor, komi, to_play, n),
          ParseBoard(board_str), 0)

\* The constructor: an empty Position on fresh visitors, then the stones of
\* the board string in row-major order.
TestablePosition(board_str, komi, to_play, n) ==
  PlaceAll(NewPosition(FreshBoardVisitor, FreshGroupVisitor, komi, to_play, n),
           ParseBoard(board_str), 0)

\* ---- the play command of the text protocol (cc/gtp_player.cc)
\* An argument is modelled as the sequence of its characters.

\* std::tolower on the characters the explored arguments start with.
ToLower(ch) ==
  CASE ch = "B" -> "b"
    [] ch = "W" -> "w"
    [] OTHER -> ch

\* The column letters of KGS coordinates: 'I' is skipped.
KgsColumns == << "A", "B", "C", "D", "E", "F", "G", "H", "J" >>

KgsDigits == << "1", "2", "3", "4", "5", "6", "7", "8", "9" >>

\* The index (from 1) of ch in letters, or 0.
IndexIn(letters, ch) ==
  IF \E i \in 1 .. Len(letters) : letters[i] = ch
  THEN CHOOSE i \in 1 .. Len(letters) : letters[i] = ch
  ELSE 0

\* Coord::FromKgs(str, allow_invalid = true): "pass", or a column letter and
\* a row number counted from the bottom edge; anything else is kInvalid.
FromKgs(str) ==
  IF str = << "p", "a", "s", "s" >> THEN Pass
  ELSE IF Len(str) # 2 THEN Invalid
  ELSE LET col == IndexIn(KgsColumns, str[1])
           row == IndexIn(KgsDigits, str[2])
       IN IF col \in 1 .. kN /\ row \in 1 .. kN
          THEN Coord(kN - row, col - 1)
          ELSE Invalid

\* The player's PlayMove(c): plays c on the root position for the side to
\* move; Position::PlayMove asserts IsMoveLegal(c).
PlayerPlayMove(p, c) ==
  IF ~PlayMoveLegal(p, c, Empty) THEN [p EXCEPT !.failure = "illegal"]
  ELSE PlayMove(p, c, Empty)

\* CheckArgsExact: an error unless there are exactly expected_num_args
\* arguments.
CheckArgsExact(expected_num_args, args) == Len(args) = expected_num_args

\* HandlePlay as it would be without the test of the colour against to_play.
HandlePlayAnyColor(p, args) ==
  IF ~CheckArgsExact(2, args) THEN [ok |-> FALSE, p |-> p]
  ELSE IF ToLower(args[1][1]) \notin { "b", "w" } THEN [ok |-> FALSE, p |-> p]
  ELSE LET c == FromKgs(args[2]) IN
       IF c = Invalid THEN [ok |-> FALSE, p |-> p]
       ELSE IF ~IsMoveLegal(p, c) THEN [ok |-> FALSE, p |-> p]
       ELSE [ok |-> TRUE, p |-> PlayerPlayMove(p, c)]

\* HandlePlay(cmd, args): the response (ok or an error) and the root position
\* afterwards.
HandlePlay(p, args) ==
  IF ~CheckArgsExact(2, args) THEN [ok |-> FALSE, p |-> p]
  ELSE IF ToLower(args[1][1]) \notin { "b", "w" } THEN [ok |-> FALSE, p |-> p]
  ELSE LET color == IF ToLower(args[1][1]) = "b" THEN Black ELSE White
           c == FromKgs(args[2])
       IN IF color # p.to_play THEN [ok |-> FALSE, p |-> p]
          ELSE IF c = Invalid THEN [ok |-> FALSE, p |-> p]
          ELSE IF ~IsMoveLegal(p, c) THEN [ok |-> FALSE, p |-> p]
          ELSE [ok |-> TRUE, p |-> PlayerPlayMove(p, c)]

\* ------------------------------------------------------------ board strings

EmptyBoard == << >>

\*  .OX    Black at (0,0) captures the single White stone at (0,1): a ko.
\*  OX.    Black at (1,2) joins two Black groups.
KoBoard == << << ".", "O", "X" >>, << "O", "X", "." >> >>

\*  OO.    Black at (0,2) captures one White group of two stones from a
\*  XXO    point whose neighbours are all White.
TwoStoneBoard == << << "O", "O", "." >>, << "X", "X", "O" >> >>

\*  O.O    Black at (0,1) captures two White groups of one stone each from a
\*  XOX    point whose neighbours are all White.
TwoGroupBoard == << << "O", ".", "O" >>, << "X", "O", "X" >> >>

Boards == { EmptyBoard, KoBoard, TwoStoneBoard, TwoGroupBoard }

\* The number of CalculateScore calls the caller makes before the first move:
\* none, or enough to bring the 8-bit epoch of fresh visitors to its last
\* value.
PriorScores == { 0, EpochModulus - 1 }

\* The komi of the explored games, in half points: 0 and 7.5.
Komis == { 0, 15 }

\* ----------------------------------------------------------------- the state

VARIABLES
  stones,                  \* Position::stones_
  groups,                  \* Position::groups_ (the pool)
  to_play,                 \* Position::to_play_
  previous_move,           \* Position::previous_move_
  ko,                      \* Position::ko_
  num_captures,            \* Position::num_captures_
  n,                       \* Position::n_
  num_consecutive_passes,  \* Position::num_consecutive_passes_
  komi,                    \* Position::komi_, in half points
  board_visitor,           \* *Position::board_visitor_
  group_visitor,           \* *Position::group_visitor_
  failure,                 \* "none", or the assertion that ended the process
  score,                   \* what the last CalculateScore returned, in half points
  prior_scores,            \* CalculateScore calls still to make before the first move
  num_scores,              \* CalculateScore calls made since those
  last_move,               \* the most recent PlayMove: [op, c, color]
  history,                 \* the c arguments of the PlayMove calls so far
  traversal,               \* a caller's own use of the visitors (SpecVisitor)
  gtp,                     \* the most recent play command and its response (SpecGtp)
  placements,              \* stones placed so far: << Black's, White's >>
  board_str,               \* the board string given to the constructor
  prev                     \* the position value before the most recent PlayMove

vars ==
  << stones, groups, to_play, previous_move, ko, num_captures, n,
     num_consecutive_passes, komi, board_visitor, group_visitor, failure, score,
     prior_scores, num_scores, last_move, history, traversal, gtp, placements,
     board_str, prev >>

\* The position value held by the variables.
Pos ==
  [stones |-> stones, pool |-> groups, to_play |-> to_play,
   previous_move |-> previous_move, ko |-> ko, num_captures |-> num_captures,
   n |-> n, num_consecutive_passes |-> num_consecutive_passes, komi |-> komi,
   bv |-> board_visitor, gv |-> group_visitor, failure |-> failure]

\* The variables take the position value p.
Becomes(p) ==
  /\ stones' = p.stones
  /\ groups' = p.pool
  /\ to_play' = p.to_play
  /\ previous_move' = p.previous_move
  /\ ko' = p.ko
  /\ num_captures' = p.num_captures
  /\ n' = p.n
  /\ num_consecutive_passes' = p.num_consecutive_passes
  /\ komi' = p.komi
  /\ board_visitor' = p.bv
  /\ group_visitor' = p.gv
  /\ failure' = p.failure

\* No traversal by the caller yet: prior is the number of Begin calls still
\* to make before the first Visit, begins the number of Begin calls made
\* since, points and ids what has been passed to Visit since the most recent
\* Begin, and last the most recent Visit with what it returned; pending is
\* the points pushed and not yet returned by Next, in the order of their
\* first Visit, and next the most recent Next: the point it returned and the
\* point that was first in pending.
NoTraversal(k) ==
  [prior |-> k, begins |-> 0, points |-> { }, ids |-> { },
   last |-> [kind |-> "none", x |-> 0, returned |-> FALSE, first |-> FALSE],
   pending |-> << >>,
   next |-> [x |-> Invalid, oldest |-> Invalid]]

\* The number of points of the given colour.
StoneCount(colors, color) == Cardinality({ c \in Points : colors[c] = color })

\* The stones the constructor places for a board string: one AddStoneToBoard
\* call per stone of ParseBoard.
Placed(str) ==
  << StoneCount(ParseBoard(str), Black), StoneCount(ParseBoard(str), White) >>

\* One more stone of the given colour has been placed.
PlacedOneMore(placed, color) ==
  IF color = Black THEN << placed[1] + 1, placed[2] >>
  ELSE << placed[1], placed[2] + 1 >>

\* No play command yet: commands counts the commands sent, args and ok are
\* the most recent command's arguments and whether its response was ok, and
\* before is the root position it was sent to.
NoCommand(p) == [commands |-> 0, args |-> << >>, ok |-> FALSE, before |-> p]

Starts(p, k) ==
  /\ prior_scores = k
  /\ stones = p.stones
  /\ groups = p.pool
  /\ to_play = p.to_play
  /\ previous_move = p.previous_move
  /\ ko = p.ko
  /\ num_captures = p.num_captures
  /\ n = p.n
  /\ num_consecutive_passes = p.num_consecutive_passes
  /\ komi = p.komi
  /\ board_visitor = p.bv
  /\ group_visitor = p.gv
  /\ failure = p.failure
  /\ score = 0
  /\ num_scores = 0
  /\ last_move = [op |-> "init", c |-> Invalid, color |-> Empty]
  /\ history = << >>
  /\ traversal = NoTraversal(0)
  /\ gtp = NoCommand(p)
  /\ prev = p

Init ==
  \E b \in Boards, k \in PriorScores, km \in Komis :
    /\ Starts(TestablePosition(b, km, Black, 0), k)
    /\ placements = Placed(b)
    /\ board_str = b

\* PlayMove(c, color) with a stone: the caller has checked legality.
PlayStone(c, color) ==
  /\ failure = "none"
  /\ prior_scores = 0
  /\ PlayMoveLegal(Pos, c, color)
  /\ Becomes(PlayMove(Pos, c, color))
  /\ last_move' = [op |-> "play", c |-> c, color |-> MoveColor(Pos, color)]
  /\ history' = Append(history, c)
  /\ placements' = PlacedOneMore(placements, MoveColor(Pos, color))
  /\ prev' = Pos
  /\ UNCHANGED << score, prior_scores, num_scores, traversal, gtp, board_str >>

\* PlayMove(Pass, color).
PlayPass(color) ==
  /\ failure = "none"
  /\ prior_scores = 0
  /\ Becomes(PlayMove(Pos, Pass, color))
  /\ last_move' = [op |-> "pass", c |-> Pass, color |-> Empty]
  /\ history' = Append(history, Pass)
  /\ prev' = Pos
  /\ UNCHANGED << score, prior_scores, num_scores, traversal, gtp, placements,
                  board_str >>

\* CalculateScore().
Score ==
  /\ failure = "none"
  /\ prior_scores > 0 \/ num_scores < MaxScores
  /\ LET r == CalculateScore(Pos) IN
       /\ board_visitor' = r.bv
       /\ group_visitor' = r.gv
       /\ score' = r.result
  /\ IF prior_scores > 0
     THEN prior_scores' = prior_scores - 1 /\ num_scores' = num_scores
     ELSE prior_scores' = prior_scores /\ num_scores' = num_scores + 1
  /\ UNCHANGED << stones, groups, to_play, previous_move, ko, num_captures, n,
                  num_consecutive_passes, komi, failure, last_move, history,
                  traversal, gtp, placements, board_str, prev >>

\* The colour argument of the explored PlayMove calls: the default (the side
\* to move) or Black, in turn or out of turn.
MoveColors == { Empty, Black }

Next ==
  \/ /\ n < MaxMoves
     /\ \E c \in Points, color \in MoveColors : PlayStone(c, color)
  \/ /\ n < MaxMoves
     /\ \E color \in MoveColors : PlayPass(color)
  \/ Score

Spec == Init /\ [][Next]_vars

\* ---- the long ko fight: both sides keep retaking the ko of KoBoard, with
\* passes in between, on fresh visitors.

KoFightPoints == { Coord(0, 0), Coord(0, 1) }

KoFightInit ==
  /\ Starts(TestablePosition(KoBoard, 0, Black, 0), 0)
  /\ placements = Placed(KoBoard)
  /\ board_str = KoBoard

KoFightNext ==
  \/ /\ n < MaxKoFightMoves
     /\ \E c \in KoFightPoints : PlayStone(c, Empty)
  \/ /\ n < MaxKoFightMoves
     /\ PlayPass(Empty)

SpecKoFight == KoFightInit /\ [][KoFightNext]_vars

\* ---- the visitors on their own: a caller runs traversals of its own on a
\* BoardVisitor and a GroupVisitor, beside an empty position.

VisitorPoints == { Coord(0, 0), Coord(0, 1) }
VisitorIds == { 0, 1 }

\* Fresh visitors; the caller first makes as many Begin calls as the prior
\* CalculateScore calls of Spec make (one Begin each), without any Visit.
VisitorInit ==
  /\ \E k \in PriorScores : traversal = NoTraversal(k)
  /\ prior_scores = 0
  /\ stones = [c \in Points |-> EmptyStone]
  /\ groups = EmptyPool
  /\ to_play = Black
  /\ previous_move = Invalid
  /\ ko = Invalid
  /\ num_captures = << 0, 0 >>
  /\ n = 0
  /\ num_consecutive_passes = 0
  /\ komi = 0
  /\ board_visitor = FreshBoardVisitor
  /\ group_visitor = FreshGroupVisitor
  /\ failure = "none"
  /\ score = 0
  /\ num_scores = 0
  /\ last_move = [op |-> "init", c |-> Invalid, color |-> Empty]
  /\ history = << >>
  /\ gtp = NoCommand(NewPosition(FreshBoardVisitor, FreshGroupVisitor, 0, Black, 0))
  /\ placements = << 0, 0 >>
  /\ board_str = EmptyBoard
  /\ prev = NewPosition(FreshBoardVisitor, FreshGroupVisitor, 0, Black, 0)

PositionUntouched ==
  UNCHANGED << stones, groups, to_play, previous_move, ko, num_captures, n,
               num_consecutive_passes, komi, failure, score, prior_scores,
               num_scores, last_move, history, gtp, placements, board_str,
               prev >>

\* BoardVisitor::Begin and GroupVisitor::Begin; the former asserts Done().
VisitorBegin ==
  /\ BvDone(board_visitor)
  /\ traversal.prior > 0 \/ traversal.begins < MaxBegins
  /\ board_visitor' = BvBegin(board_visitor)
  /\ group_visitor' = GvBegin(group_visitor)
  /\ traversal' =
       IF traversal.prior > 0
       THEN NoTraversal(traversal.prior - 1)
       ELSE [NoTraversal(0) EXCEPT !.begins = traversal.begins + 1]
  /\ PositionUntouched

\* BoardVisitor::Visit(c).
VisitorVisitPoint(c) ==
  /\ traversal.prior = 0
  /\ traversal.begins > 0
  /\ board_visitor' = BvVisit(board_visitor, c)
  /\ traversal' =
       [traversal EXCEPT !.points = @ \cup { c },
                         !.last = [kind |-> "point", x |-> c,
                                   returned |-> BvVisitResult(board_visitor, c),
                                   first |-> c \notin traversal.points],
                         !.pending = IF BvVisitResult(board_visitor, c)
                                     THEN Append(@, c) ELSE @]
  /\ UNCHANGED group_visitor
  /\ PositionUntouched

\* BoardVisitor::Next().
VisitorNext ==
  /\ traversal.prior = 0
  /\ ~BvDone(board_visitor)
  /\ board_visitor' = BvPop(board_visitor)
  /\ traversal' =
       [traversal EXCEPT
          !.next = [x |-> BvNextCoord(board_visitor), oldest |-> Head(traversal.pending)],
          !.pending = SelectSeq(@, LAMBDA c : c # BvNextCoord(board_visitor))]
  /\ UNCHANGED group_visitor
  /\ PositionUntouched

\* GroupVisitor::Visit(id).
VisitorVisitGroup(id) ==
  /\ traversal.prior = 0
  /\ traversal.begins > 0
  /\ group_visitor' = GvVisit(group_visitor, id)
  /\ traversal' =
       [traversal EXCEPT !.ids = @ \cup { id },
                         !.last = [kind |-> "id", x |-> id,
                                   returned |-> GvVisitResult(group_visitor, id),
                                   first |-> id \notin traversal.ids]]
  /\ UNCHANGED board_visitor
  /\ PositionUntouched

VisitorStep ==
  \/ VisitorBegin
  \/ \E c \in VisitorPoints : VisitorVisitPoint(c)
  \/ VisitorNext
  \/ \E id \in VisitorIds : VisitorVisitGroup(id)

SpecVisitor == VisitorInit /\ [][VisitorStep]_vars

\* ---- a text-protocol session: play commands sent to a player whose root
\* position starts from one of the boards, on fresh visitors.

GtpColors == { << "b" >>, << "W" >>, << "x" >> }

GtpCoords ==
  { << col, row >> : col \in { "A", "B", "C" }, row \in { "1", "2", "3" } }
    \cup { << "p", "a", "s", "s" >>, << "A", "0" >>, << "Z", "1" >> }

\* The argument lists of the explored commands: a colour and a coordinate,
\* or too few or too many arguments.
GtpArgs ==
  { << color, coord >> : color \in GtpColors, coord \in GtpCoords }
    \cup { << >>, << << "b" >> >>, << << "b" >>, << "A", "1" >>, << "A", "1" >> >> }

GtpInit ==
  \E b \in Boards :
    /\ Starts(TestablePosition(b, 0, Black, 0), 0)
    /\ placements = Placed(b)
    /\ board_str = b

\* The command "play" with the arguments args.
GtpPlay(args) ==
  /\ failure = "none"
  /\ gtp.commands < MaxCommands
  /\ LET r == HandlePlay(Pos, args) IN
       /\ Becomes(r.p)
       /\ gtp' = [commands |-> gtp.commands + 1, args |-> args, ok |-> r.ok,
                  before |-> Pos]
       /\ IF r.ok
          THEN /\ last_move' =
                    IF FromKgs(args[2]) = Pass
                    THEN [op |-> "pass", c |-> Pass, color |-> Empty]
                    ELSE [op |-> "play", c |-> FromKgs(args[2]), color |-> to_play]
               /\ history' = Append(history, FromKgs(args[2]))
               /\ placements' =
                    IF FromKgs(args[2]) = Pass THEN placements
                    ELSE PlacedOneMore(placements, to_play)
               /\ prev' = Pos
          ELSE UNCHANGED << last_move, history, placements, prev >>
  /\ UNCHANGED << score, prior_scores, num_scores, traversal, board_str >>

GtpNext == \E args \in GtpArgs : GtpPlay(args)

SpecGtp == GtpInit /\ [][GtpNext]_vars

\* ---- the test constructor on its own: TestablePosition is given a board
\* string, a side to move and a move number.

\* The lines of the explored board strings: empty, shorter than the board or
\* as long as it.
BoardLines ==
  { << >>, << "X" >>, << "O" >>, << ".", "X" >>, << "O", "X" >>, << "X", "O" >>,
    << "X", "X", "O" >>, << "O", "O", "X" >>, << "X", "O", "X" >>,
    << "O", ".", "O" >>, << ".", "O", "." >> }

BoardStrings == UNION { [1 .. len -> BoardLines] : len \in 0 .. kN }

\* The move numbers given to the constructor.
MoveNumbers == { 0, 7 }

\* The base-class constructor has run: an empty Position with the given komi,
\* side to move and move number; the board string is still to be placed.
TestableInit ==
  \E b \in BoardStrings, color \in { Black, White }, num \in MoveNumbers :
    /\ Starts(NewPosition(FreshBoardVisitor, FreshGroupVisitor, 0, color, num), 0)
    /\ placements = << 0, 0 >>
    /\ board_str = b

\* The constructor TestablePosition(board_str, komi, to_play, n).
Construct ==
  /\ last_move.op = "init"
  /\ Len(NonEmptyLines(board_str)) <= kN
  /\ Becomes(TestablePosition(board_str, komi, to_play, n))
  /\ last_move' = [op |-> "construct", c |-> Invalid, color |-> Empty]
  /\ placements' = Placed(board_str)
  /\ prev' = Pos
  /\ UNCHANGED << score, prior_scores, num_scores, history, traversal, gtp,
                  board_str >>

SpecTestable == TestableInit /\ [][Construct]_vars

\* ------------------------------------------------- from-scratch recounts
\* What the claims compare the incremental bookkeeping with: computed from
\* the colours on the board alone.

Colors(p) == [c \in Points |-> p.stones[c].color]

RECURSIVE Grow(_, _)
Grow(colors, S) ==
  LET T == S \cup { nc \in Points :
                      \E c \in S : nc \in NeighborSet(c) /\ colors[nc] = colors[c] }
  IN IF T = S THEN S ELSE Grow(colors, T)

\* The maximal 4-connected set of points of c's colour that contains c.
Component(colors, c) == Grow(colors, { c })

\* The distinct empty points adjacent to a stone of S.
LibertySet(colors, S) ==
  { e \in Points : colors[e] = Empty /\ \E c \in S : e \in NeighborSet(c) }

\* The stones that carry group id.
StonesOf(p, id) ==
  { c \in Points : p.stones[c].color # Empty /\ p.stones[c].group_id = id }

CarriedIds(p) == { p.stones[c].group_id : c \in { x \in Points : p.stones[x].color # Empty } }

LibertiesRecounted(p) ==
  \A id \in CarriedIds(p) :
    p.pool.groups[id].num_liberties =
      Cardinality(LibertySet(Colors(p), StonesOf(p, id)))

GroupsAreComponents(p) ==
  \A c \in Points :
    p.stones[c].color # Empty =>
      /\ StonesOf(p, p.stones[c].group_id) = Component(Colors(p), c)
      /\ p.pool.groups[p.stones[c].group_id].size =
           Cardinality(StonesOf(p, p.stones[c].group_id))

NoDuplicates(s) == \A i, j \in 1 .. Len(s) : s[i] = s[j] => i = j

\* ------------------------------------------------------------------ claims

\* C1: after every PlayMove, for every group id carried by a stone,
\* num_liberties equals the number of distinct empty points adjacent to a
\* stone carrying that id.
C1_LibertiesMatchRecount ==
  (failure = "none" /\ last_move.op = "play") => LibertiesRecounted(Pos)

\* C2: after every PlayMove, the stones carrying a group id are exactly one
\* maximal 4-connected set of stones of one colour, and size is their number.
C2_GroupsAreMaximalComponents ==
  (failure = "none" /\ last_move.op = "play") => GroupsAreComponents(Pos)

\* C3: after every public operation, every allocated group id has
\* num_liberties > 0.
C3_AllocatedGroupsHaveLiberties ==
  failure = "none" =>
    \A id \in Allocated(groups) : groups.groups[id].num_liberties > 0

\* C4: the number of allocated group ids never exceeds the number of board
\* points and GroupPool::alloc never runs out of ids.
C4_PoolNeverExhausted ==
  /\ failure # "pool_exhausted"
  /\ Cardinality(Allocated(groups)) <= BoardArea

\* C5: after every PlayMove, the group id of every non-empty cell is
\* allocated, and no id has been freed twice.
C5_StoneIdsAllocated ==
  (failure = "none" /\ last_move.op = "play") =>
    /\ \A c \in Points :
         stones[c].color # Empty => stones[c].group_id \in Allocated(groups)
    /\ NoDuplicates(groups.free_ids)

\* ---- what a move really does, from the colours alone

\* The points whose stones the most recent move took off the board.
RemovedPoints ==
  { d \in Points : prev.stones[d].color # Empty /\ stones[d].color = Empty }

\* c is empty and every in-board neighbour of c is a stone of colour color.
Surrounded(colors, c, color) ==
  colors[c] = Empty /\ \A nc \in NeighborSet(c) : colors[nc] = color

\* The opponent groups a stone of colour color at c leaves without liberties:
\* the groups next to c whose only liberty is c.
GroupsInAtari(colors, c, color) ==
  { Component(colors, nc) :
      nc \in { x \in NeighborSet(c) :
                 /\ colors[x] = OtherColor(color)
                 /\ LibertySet(colors, Component(colors, x)) = { c } } }

\* Placing a stone of colour color at c captures nothing and leaves the
\* group that contains c without liberties.
ReallySuicidal(colors, c, color) ==
  LET placed == [colors EXCEPT ![c] = color] IN
  /\ \A d \in NeighborSet(c) :
       placed[d] = OtherColor(color) =>
         LibertySet(placed, Component(placed, d)) # { }
  /\ LibertySet(placed, Component(placed, c)) = { }

\* The bookkeeping of the stones on the board is right: ids are components,
\* sizes and liberty counts are the recounts, and every group has a liberty.
BoardConsistent(p) ==
  /\ GroupsAreComponents(p)
  /\ LibertiesRecounted(p)
  /\ \A id \in CarriedIds(p) : p.pool.groups[id].num_liberties > 0

\* The most recent move was a stone that captured exactly one opponent stone
\* from a point all of whose in-board neighbours were opponent stones.
KoCapture ==
  /\ last_move.op = "play"
  /\ Surrounded(Colors(prev), last_move.c, OtherColor(last_move.color))
  /\ \E x \in Points :
       GroupsInAtari(Colors(prev), last_move.c, last_move.color) = { { x } }

KoCapturePoint ==
  CHOOSE x \in Points :
    GroupsInAtari(Colors(prev), last_move.c, last_move.color) = { { x } }

\* C6: IsMoveLegal(c) is true exactly when c is Pass, or the cell at c is
\* empty, c is not the ko point and the move is not suicidal for to_play.
C6_IsMoveLegalCharacterised ==
  \A c \in Points \cup { Pass } :
    IsMoveLegal(Pos, c) <=>
      \/ c = Pass
      \/ /\ stones[c].color = Empty
         /\ c # ko
         /\ ~IsMoveSuicidal(Pos, c, to_play)

\* A ko point that is illegal only because of the ko, beside a legal point,
\* an occupied point and a suicidal point.
C6_Witness ==
  /\ ko \in Points
  /\ stones[ko].color = Empty
  /\ ~IsMoveSuicidal(Pos, ko, to_play)
  /\ ~IsMoveLegal(Pos, ko)
  /\ \E c \in Points : IsMoveLegal(Pos, c)
  /\ \E c \in Points : stones[c].color # Empty /\ ~IsMoveLegal(Pos, c)

\* C7: in a position whose bookkeeping is right, for every empty point c and
\* colour X, IsMoveSuicidal(c, X) is true exactly when an X stone at c would
\* capture nothing and leave its own group without liberties.
C7_SuicideTestIsExact ==
  (failure = "none" /\ BoardConsistent(Pos)) =>
    \A c \in Points, color \in { Black, White } :
      stones[c].color = Empty =>
        (IsMoveSuicidal(Pos, c, color) <=> ReallySuicidal(Colors(Pos), c, color))

\* After a move, a point that is suicidal for the side to move although it
\* touches that side's stones, and a point that is playable only because it
\* captures.
C7_Witness ==
  /\ failure = "none"
  /\ last_move.op = "play"
  /\ BoardConsistent(Pos)
  /\ \E c \in Points :
       /\ stones[c].color = Empty
       /\ IsMoveSuicidal(Pos, c, to_play)
       /\ \E nc \in NeighborSet(c) : stones[nc].color = to_play
  /\ \E c \in Points, color \in { Black, White } :
       /\ stones[c].color = Empty
       /\ ~IsMoveSuicidal(Pos, c, color)
       /\ \A nc \in NeighborSet(c) : stones[nc].color = OtherColor(color)

\* C8: after a stone that captures exactly one opponent stone from a koish
\* point, the captured stone's point is illegal for the opponent, who is to
\* move; and after any one further PlayMove (stone or pass) the ko point is
\* no longer the one that capture set.
C8_KoBansOneMove ==
  failure = "none" =>
    /\ KoCapture =>
         /\ to_play = OtherColor(last_move.color)
         /\ ~IsMoveLegal(Pos, KoCapturePoint)
    /\ (last_move.op \in { "play", "pass" } /\ prev.ko \in Points) => ko # prev.ko

\* One move after a ko capture: the ban is gone and the point is legal again.
C8_Witness ==
  /\ failure = "none"
  /\ last_move.op \in { "play", "pass" }
  /\ prev.ko \in Points
  /\ prev.stones[prev.ko].color = Empty
  /\ ko = Invalid
  /\ stones[prev.ko].color = Empty
  /\ IsMoveLegal(Pos, prev.ko)

C10_EdgePointsNeverKoish ==
  \A c \in Points : Len(GetNeighborCoords(c)) < 4 => IsKoish(Pos, c) = Empty

\* C10, amended: IsKoish(c) is colour C (Black or White) exactly when c is
\* empty and every in-board neighbour of c is a stone of colour C, on the
\* edge and in the corner as in the interior; otherwise it is Empty.
C10_KoishIffAllNeighborsOneColor ==
  \A c \in Points :
    /\ IsKoish(Pos, c) \in { Empty, Black, White }
    /\ \A color \in { Black, White } :
         IsKoish(Pos, c) = color <=> Surrounded(Colors(Pos), c, color)

\* A stone has just been played on an edge or corner point that was koish
\* for the opponent, and it set a ko.
C10_Witness ==
  /\ failure = "none"
  /\ last_move.op = "play"
  /\ Len(GetNeighborCoords(last_move.c)) < 4
  /\ IsKoish(prev, last_move.c) = OtherColor(last_move.color)
  /\ ko \in Points

\* ---- passes

\* C11: PlayMove(Pass), whatever the colour argument, leaves stones, every
\* group record, the allocated ids and num_captures unchanged, and changes
\* ko to Invalid, to_play to the other colour, n and num_consecutive_passes
\* by plus one and previous_move to Pass.
C11_PassFrame ==
  last_move.op = "pass" =>
    /\ stones = prev.stones
    /\ groups = prev.pool
    /\ Allocated(groups) = Allocated(prev.pool)
    /\ num_captures = prev.num_captures
    /\ ko = Invalid
    /\ to_play = OtherColor(prev.to_play)
    /\ n = prev.n + 1
    /\ num_consecutive_passes = prev.num_consecutive_passes + 1
    /\ previous_move = Pass

\* A pass on a board with stones, played while a ko point was set.
C11_Witness ==
  /\ last_move.op = "pass"
  /\ prev.ko \in Points
  /\ ko = Invalid
  /\ CarriedIds(Pos) # { }
  /\ prev.num_captures # << 0, 0 >>

\* C12: after any sequence of PlayMove calls, num_consecutive_passes is 0, 1
\* or 2.
C12_PassCountAtMostTwo == num_consecutive_passes \in { 0, 1, 2 }

\* The length of the trailing run of Pass in a move history.
RECURSIVE TrailingPasses(_)
TrailingPasses(h) ==
  IF h = << >> \/ h[Len(h)] # Pass THEN 0
  ELSE 1 + TrailingPasses(SubSeq(h, 1, Len(h) - 1))

\* C13: num_consecutive_passes is the length of the trailing run of Pass
\* moves in the history, is_game_over() is true exactly when that run has
\* length at least 2, and a stone after a double pass resets both.
C13_PassCountIsTrailingRun ==
  failure = "none" =>
    /\ num_consecutive_passes = TrailingPasses(history)
    /\ is_game_over(Pos) <=> TrailingPasses(history) >= 2
    /\ (last_move.op = "play" /\ is_game_over(prev)) =>
         (num_consecutive_passes = 0 /\ ~is_game_over(Pos))

\* A stone has just been played after a double pass.
C13_Witness ==
  /\ failure = "none"
  /\ Len(history) = 3
  /\ history[1] = Pass /\ history[2] = Pass /\ history[3] # Pass
  /\ is_game_over(prev)
  /\ ~is_game_over(Pos)
  /\ num_consecutive_passes = 0

\* ---- captures

\* The stones a stone of colour color at c takes: the opponent groups next
\* to c whose only liberty is c.
ExpectedCaptures(colors, c, color) == UNION GroupsInAtari(colors, c, color)

\* C14: a legal stone of colour X at c removes exactly the stones of the
\* opponent groups next to c whose only liberty was c, adds their number to
\* X's capture counter and leaves the other counter unchanged.
C14_CapturesExactlyAtariGroups ==
  (failure = "none" /\ last_move.op = "play") =>
    LET X == last_move.color
        expected == ExpectedCaptures(Colors(prev), last_move.c, X)
        mine == IF X = Black THEN 1 ELSE 2
        other == IF X = Black THEN 2 ELSE 1
    IN /\ RemovedPoints = expected
       /\ stones[last_move.c].color = X
       /\ num_captures[mine] = prev.num_captures[mine] + Cardinality(expected)
       /\ num_captures[other] = prev.num_captures[other]
       /\ num_captures[1] + num_captures[2] >= prev.num_captures[1] + prev.num_captures[2]

\* ---- the score

\* The colours of the stones that border the set S of points.
Border(colors, S) ==
  { colors[d] : d \in { x \in Points : colors[x] # Empty /\ \E c \in S : x \in NeighborSet(c) } }

\* The stones of colour color, and the empty points that lie in an empty
\* region all of whose bordering stones are of that colour.
Area(colors, color) ==
  { c \in Points :
      \/ colors[c] = color
      \/ colors[c] = Empty /\ Border(colors, Component(colors, c)) = { color } }

\* Black's area minus White's.
AreaScore(colors) == Cardinality(Area(colors, Black)) - Cardinality(Area(colors, White))

\* C15: in every reachable position, whatever the visitors have done before,
\* CalculateScore() returns Black's area minus White's area minus komi.
C15_ScoreIsAreaScore ==
  failure = "none" =>
    CalculateScore(Pos).result = 2 * AreaScore(Colors(Pos)) - komi

\* The position with the colours of all stones swapped.
SwapColors(p) ==
  [p EXCEPT !.stones =
     [c \in Points |->
        IF @[c].color = Empty THEN @[c]
        ELSE Stone(OtherColor(@[c].color), @[c].group_id)]]

C17_VisitTrueIffFirst ==
  /\ traversal.last.kind # "none" =>
       traversal.last.returned = traversal.last.first
  /\ (traversal.begins > 0 /\ traversal.points = { }) =>
       \A c \in Points : board_visitor.visited[c] # board_visitor.epoch
  /\ (traversal.begins > 0 /\ traversal.ids = { }) =>
       \A id \in GroupIds : group_visitor.visited[id] # group_visitor.epoch

\* ---- PlayMove with a stone

\* C18: PlayMove(c, color) with a stone places a stone of colour X at c, X
\* being color unless it is Empty and the stored to_play otherwise; the move
\* is legal for X; afterwards n is one more, num_consecutive_passes is 0,
\* previous_move is c and to_play is the opposite of X.
C18_PlayMoveStone ==
  [][\A c \in Points, color \in MoveColors :
       (PlayStone(c, color) /\ failure' = "none") =>
         LET X == IF color # Empty THEN color ELSE to_play IN
         /\ IsMoveLegal([Pos EXCEPT !.to_play = X], c)
         /\ stones'[c].color = X
         /\ n' = n + 1
         /\ num_consecutive_passes' = 0
         /\ previous_move' = c
         /\ to_play' = OtherColor(X)]_vars

\* A Black stone has just been played out of turn, after a pass.
C18_Witness ==
  /\ failure = "none"
  /\ last_move.op = "play"
  /\ prev.to_play = White
  /\ prev.num_consecutive_passes > 0
  /\ stones[last_move.c].color = Black
  /\ to_play = White
  /\ num_consecutive_passes = 0
  /\ previous_move = last_move.c

\* ---- merges

\* The distinct ids of the groups of colour color next to c, in the order
\* in which the neighbours of c are listed.
RECURSIVE FriendIds(_, _, _, _)
FriendIds(p, ncs, i, color) ==
  IF i > Len(ncs) THEN << >>
  ELSE LET rest == FriendIds(p, ncs, i + 1, color)
           s == p.stones[ncs[i]]
       IN IF s.color # color THEN rest
          ELSE << s.group_id >> \o SelectSeq(rest, LAMBDA id : id # s.group_id)

\* The most recent move was a stone next to two or more groups of its colour.
MergingMove ==
  /\ last_move.op = "play"
  /\ Len(FriendIds(prev, GetNeighborCoords(last_move.c), 1, last_move.color)) >= 2

\* C19: after a stone placed next to k >= 2 groups of its colour, the stone
\* and every stone of those groups carry the id of the first of them, that
\* id is allocated with size and num_liberties those of the union, the other
\* k - 1 ids have each been freed once, and no id has been allocated.
C19_MergeKeepsFirstId ==
  (failure = "none" /\ MergingMove) =>
    LET c == last_move.c
        X == last_move.color
        ids == FriendIds(prev, GetNeighborCoords(c), 1, X)
        union == { c } \cup UNION { StonesOf(prev, ids[i]) : i \in 1 .. Len(ids) }
    IN /\ \A d \in union : stones[d] = Stone(X, ids[1])
       /\ ids[1] \in Allocated(groups)
       /\ groups.groups[ids[1]].size = Cardinality(union)
       /\ groups.groups[ids[1]].num_liberties =
            Cardinality(LibertySet(Colors(Pos), union))
       /\ groups.free_ids = prev.pool.free_ids \o SubSeq(ids, 2, Len(ids))
       /\ groups.num_groups = prev.pool.num_groups

\* ---- independence of the visitors' past

\* The position's own data: everything but the visitors it points to.
PositionData(p) ==
  [stones |-> p.stones, pool |-> p.pool, to_play |-> p.to_play,
   previous_move |-> p.previous_move, ko |-> p.ko,
   num_captures |-> p.num_captures, n |-> p.n,
   num_consecutive_passes |-> p.num_consecutive_passes, komi |-> p.komi,
   failure |-> p.failure]

\* The same position data attached to visitors that have done nothing yet,
\* as the copying constructor Position(bv, gv, other) makes it.
OnFreshVisitors(p) ==
  [p EXCEPT !.bv = FreshBoardVisitor, !.gv = FreshGroupVisitor]

\* C20: PlayMove and CalculateScore give the same position data and the
\* same score from the same position data, whatever the visitors have done
\* before.
C20_VisitorPastIsInvisible ==
  failure = "none" =>
    /\ CalculateScore(Pos).result = CalculateScore(OnFreshVisitors(Pos)).result
    /\ \A c \in Points \cup { Pass }, color \in MoveColors :
         PlayMoveLegal(Pos, c, color) =>
           PositionData(PlayMove(Pos, c, color)) =
             PositionData(PlayMove(OnFreshVisitors(Pos), c, color))

\* ---- the flood fills

\* C21: every flood fill of MergeGroup, RemoveGroup and CalculateScore has
\* pushed no point twice in one traversal and never held more than kN * kN
\* points; assert(Done()) in Begin never fails; and when the operation
\* returns (no assertion has ended the process) the BoardVisitor is Done.
C21_FloodFillsLeaveVisitorDone ==
  /\ ~board_visitor.twice
  /\ board_visitor.peak <= BoardArea
  /\ ~board_visitor.reentered
  /\ failure = "none" => BvDone(board_visitor)

\* A move has just run a flood fill: its traversal pushed several points
\* and the stack is empty again.
C21_Witness ==
  /\ failure = "none"
  /\ last_move.op = "play"
  /\ board_visitor.epoch # prev.bv.epoch
  /\ Cardinality(board_visitor.pushed) >= 3
  /\ board_visitor.peak >= 2
  /\ BvDone(board_visitor)

\* C22: BoardVisitor::Next returns the pending points in the order in which
\* they were first passed to Visit: the oldest pending point first.
C22_NextReturnsOldestPending ==
  traversal.next.x # Invalid => traversal.next.x = traversal.next.oldest

\* C23: the command "play COLOR COORD" answers an error and leaves the game
\* position as it was whenever there are not exactly 2 arguments, COLOR does
\* not start with b or w, COLOR is not the side to move, COORD does not parse
\* or IsMoveLegal(COORD) is false; otherwise it answers ok and has played
\* COORD for the side to move, and PlayMove's legality assertion has not
\* failed.
C23_PlayCommandChecksFirst ==
  gtp.commands > 0 =>
    LET args == gtp.args
        before == gtp.before
        colored == Len(args) = 2 /\ args[1][1] \in { "b", "B", "w", "W" }
        color == IF args[1][1] \in { "b", "B" } THEN Black ELSE White
        c == FromKgs(args[2])
        accepted ==
          /\ colored
          /\ color = before.to_play
          /\ c # Invalid
          /\ IsMoveLegal(before, c)
    IN /\ failure # "illegal"
       /\ IF accepted
          THEN /\ gtp.ok
               /\ n = before.n + 1
               /\ previous_move = c
               /\ to_play = OtherColor(color)
               /\ c # Pass => stones[c].color = color
          ELSE /\ ~gtp.ok
               /\ Pos = before

\* Two commands have been sent: the first was accepted and played a stone
\* that captured into a ko, the second asked for the banned recapture in
\* turn and was answered with an error.
C23_Witness ==
  /\ gtp.commands = 2
  /\ ~gtp.ok
  /\ Len(gtp.args) = 2
  /\ gtp.args[1] = << "W" >>
  /\ to_play = White
  /\ FromKgs(gtp.args[2]) = ko
  /\ ko # Invalid
  /\ n = 1

\* ---- the frame of CalculateScore

\* C24: a CalculateScore call leaves stones, the group records, ko, to_play,
\* previous_move, n, num_consecutive_passes and num_captures as they were,
\* and every legal move played after the call gives the position data it
\* would have given without the call.
C24_ScoreLeavesTheGameAlone ==
  [][(num_scores' # num_scores \/ prior_scores' # prior_scores) =>
       /\ PositionData(Pos)' = PositionData(Pos)
       /\ \A c \in Points \cup { Pass }, color \in MoveColors :
            PlayMoveLegal(Pos, c, color) =>
              PositionData(PlayMove(Pos', c, color)) =
                PositionData(PlayMove(Pos, c, color))]_vars

\* ---- the shape of a ko

\* C25: whenever ko is a point, that point is empty, previous_move is a
\* board point holding a group of exactly one stone whose only liberty is
\* ko, and every in-board neighbour of ko holds a stone of the colour that
\* has just moved.
C25_KoIsASingleStoneCapture ==
  (failure = "none" /\ ko # Invalid) =>
    /\ ko \in Points
    /\ stones[ko].color = Empty
    /\ previous_move \in Points
    /\ stones[previous_move].color # Empty
    /\ groups.groups[stones[previous_move].group_id].size = 1
    /\ groups.groups[stones[previous_move].group_id].num_liberties = 1
    /\ Component(Colors(Pos), previous_move) = { previous_move }
    /\ LibertySet(Colors(Pos), { previous_move }) = { ko }
    /\ \A nc \in NeighborSet(ko) : stones[nc].color = stones[previous_move].color

\* ---- stone conservation

\* C26: the Black stones on the board plus the stones White has captured
\* number the Black stones placed so far, and the White stones on the board
\* plus the stones Black has captured number the White stones placed so far.
C26_StonesConserved ==
  failure = "none" =>
    /\ StoneCount(Colors(Pos), Black) + num_captures[2] = placements[1]
    /\ StoneCount(Colors(Pos), White) + num_captures[1] = placements[2]

\* ---- the test constructor

\* Every group of stones of the board colours has at least one liberty.
AllGroupsHaveLiberties(colors) ==
  \A c \in Points :
    colors[c] # Empty => LibertySet(colors, Component(colors, c)) # { }

\* C27: a TestablePosition built from a board string in which every group
\* has a liberty holds exactly the colours of ParseBoard of the string, has
\* captured nothing, has no ko, satisfies the size and liberty invariants,
\* and has the n and to_play it was given, no passes and no previous move.
C27_ConstructorPlacesTheBoard ==
  (last_move.op = "construct" /\ AllGroupsHaveLiberties(ParseBoard(board_str))) =>
    /\ failure = "none"
    /\ Colors(Pos) = ParseBoard(board_str)
    /\ num_captures = << 0, 0 >>
    /\ ko = Invalid
    /\ BoardConsistent(Pos)
    /\ n = prev.n
    /\ to_play = prev.to_play
    /\ num_consecutive_passes = 0
    /\ previous_move = Invalid

\* A position has been built from a board string with a skipped empty line
\* and padded lines, whose groups all have liberties: at least five stones
\* of both colours, one group of several stones, White to play at move 7.
C27_Witness ==
  /\ last_move.op = "construct"
  /\ AllGroupsHaveLiberties(ParseBoard(board_str))
  /\ Len(board_str) = kN
  /\ board_str[1] = << >>
  /\ StoneCount(Colors(Pos), Black) + StoneCount(Colors(Pos), White) >= 5
  /\ StoneCount(Colors(Pos), Black) >= 2
  /\ StoneCount(Colors(Pos), White) >= 2
  /\ \E id \in CarriedIds(Pos) : groups.groups[id].size >= 2
  /\ to_play = White
  /\ n = 7

====
